---- MODULE Spec2Model ----
(***************************************************************************)
(* A model of http_server.cpp: the pipelining test server.  One            *)
(* tcp_connection reads bytes, feeds each byte to the boundary matcher     *)
(* (parser) and to the header extractor (header), queues one Reply per     *)
(* "\r\n\r\n" and flushes the reply queue from the front, a sleeping front *)
(* blocking everything behind it.                                          *)
(*                                                                         *)
(* Bytes are one-character strings.  The asio side (outstanding reads,     *)
(* deadline timers, writes in flight) is modelled by what the library      *)
(* documents: a completion handler runs later, once, from the event loop.  *)
(***************************************************************************)
EXTENDS Integers, Sequences, FiniteSets, TLC

\* ------------------------------------------------------------------ bounds

\* Most replies one connection generates in a run.
MaxReplies == 3
\* Most read completions (successful or not) one connection sees in a run.
MaxReads == 4
\* Longest byte stream fed to the boundary matcher and the header extractor
\* on their own.
MaxFeed == 7
\* Most bytes one read delivers of a peer's whole stream.
MaxPiece == 4
\* Most connections the listener makes.
MaxAccepts == 7
\* Most replies each of two connections side by side makes.
MaxPairReplies == 2

\* ------------------------------------------------------------------- bytes

CR == "\r"
LF == "\n"
COLON == ":"
SP == " "
\* What *m_ptr reads when m_ptr is m_str.end(): the string's terminator.
NUL == "NUL"

CRLF == <<CR, LF>>
\* tcp_connection's m_eom("\r\n\r\n").
EOM == <<CR, LF, CR, LF>>
KeySleep == <<"X", "-", "S", "l", "e", "e", "p">>
KeyRequest == <<"X", "-", "R", "e", "q", "u", "e", "s", "t">>

\* --------------------------------------------------------- strtoul(.., 10)

\* The largest unsigned long.  The program's is 2^64 - 1; the model's is the
\* largest integer TLC computes with, and every use saturates or wraps at it
\* the way the program's does at 2^64 - 1.
ULONG_MAX == 2147483647

DigitVal ==
  [c \in {"0", "1", "2", "3", "4", "5", "6", "7", "8", "9"} |->
     CASE c = "0" -> 0 [] c = "1" -> 1 [] c = "2" -> 2 [] c = "3" -> 3
       [] c = "4" -> 4 [] c = "5" -> 5 [] c = "6" -> 6 [] c = "7" -> 7
       [] c = "8" -> 8 [] c = "9" -> 9]

IsDigit(c) == c \in DOMAIN DigitVal
\* isspace; "VT" stands for the vertical tab.
IsSpace(c) == c \in {SP, "\t", LF, CR, "\f", "VT"}

\* Index of the first byte of s at or after i that is not white space.
RECURSIVE SkipSpace(_, _)
SkipSpace(s, i) ==
  IF i <= Len(s) /\ IsSpace(s[i]) THEN SkipSpace(s, i + 1) ELSE i

\* The digits of s from i on, accumulated into acc; saturates at ULONG_MAX.
RECURSIVE Digits(_, _, _)
Digits(s, i, acc) ==
  IF i <= Len(s) /\ IsDigit(s[i])
  THEN Digits(s, i + 1,
              IF acc > (ULONG_MAX - DigitVal[s[i]]) \div 10
              THEN ULONG_MAX
              ELSE acc * 10 + DigitVal[s[i]])
  ELSE acc

\* strtoul(s, NULL, 10): white space, an optional sign, then digits; 0 when
\* there is no digit; a leading '-' negates in unsigned arithmetic.
strtoul(s) ==
  LET i == SkipSpace(s, 1)
      neg == i <= Len(s) /\ s[i] = "-"
      j == IF i <= Len(s) /\ s[i] \in {"-", "+"} THEN i + 1 ELSE i
      v == Digits(s, j, 0)
  IN IF neg /\ v > 0 THEN ULONG_MAX - (v - 1) ELSE v

\* ------------------------------------------------------------ class parser

\* m_ptr is the offset of the iterator into m_str (0 .. Len(m_str)).
ParserReset == [m_match |-> FALSE, m_ptr |-> 0]

StrAt(str, ptr) == IF ptr < Len(str) THEN str[ptr + 1] ELSE NUL

\* ParserFeed that stays where it is on a byte that does not match.
ParserFeed_without_reset(p, str, c) ==
  IF c # StrAt(str, p.m_ptr)
  THEN p
  ELSE [m_match |-> (p.m_ptr + 1 = Len(str)), m_ptr |-> p.m_ptr + 1]

ParserFeed(p, str, c) ==
  IF c # StrAt(str, p.m_ptr)
  THEN ParserReset
  ELSE [m_match |-> (p.m_ptr + 1 = Len(str)), m_ptr |-> p.m_ptr + 1]

\* ------------------------------------------------------------ class header

HeaderReset ==
  [m_key |-> <<>>, m_value |-> <<>>, m_state |-> "s_begin", m_error |-> FALSE]

HeaderMatched(h) == h.m_state = "s_matched"

\* The switch of header::feed, on a header that is not in s_matched.
\* ret is TRUE where the code returns before the trailing '\n' test.
HeaderSwitch(h, c) ==
  CASE h.m_state = "s_key" /\ c = COLON ->
         [h |-> [h EXCEPT !.m_state = "s_colon"], ret |-> FALSE]
    [] h.m_state \in {"s_key", "s_begin"} /\ ~(h.m_state = "s_key" /\ c = COLON) ->
         [h |-> [h EXCEPT !.m_key = Append(@, c), !.m_state = "s_key"], ret |-> FALSE]
    [] h.m_state = "s_colon" ->
         [h |-> IF c = SP THEN [h EXCEPT !.m_state = "s_value"]
                ELSE [h EXCEPT !.m_error = TRUE],
          ret |-> FALSE]
    [] h.m_state = "s_value" ->
         [h |-> IF c = CR THEN [h EXCEPT !.m_state = "s_carriage_return"]
                ELSE [h EXCEPT !.m_value = Append(@, c)],
          ret |-> FALSE]
    [] h.m_state = "s_carriage_return" ->
         IF c = LF
         THEN IF ~h.m_error
              THEN [h |-> [h EXCEPT !.m_state = "s_matched"], ret |-> TRUE]
              ELSE [h |-> HeaderReset, ret |-> FALSE]
         ELSE [h |-> [h EXCEPT !.m_error = TRUE], ret |-> FALSE]
    [] OTHER -> [h |-> h, ret |-> FALSE]

HeaderFeed(h, c) ==
  LET h0 == IF HeaderMatched(h) THEN HeaderReset ELSE h
      r == HeaderSwitch(h0, c)
  IN IF r.ret THEN r.h
     ELSE IF c = LF THEN HeaderReset ELSE r.h

\* -------------------------------------------------- what a request asks for

\* Index of the first byte of s after the last LF at or before position n.
RECURSIVE LineStart(_, _)
LineStart(s, n) ==
  IF n = 0 \/ s[n] = LF THEN n + 1 ELSE LineStart(s, n - 1)

\* Index of the first ':' of line, or 0.
RECURSIVE FirstColon(_, _)
FirstColon(line, i) ==
  IF i > Len(line) THEN 0
  ELSE IF line[i] = COLON THEN i ELSE FirstColon(line, i + 1)

\* line is KEY ": " VALUE "\r\n": KEY is not empty and holds no ':', VALUE
\* holds no '\r', and the only '\n' is the last byte.
IsHeaderLine(line) ==
  LET n == Len(line)
      k == FirstColon(line, 1)
  IN /\ n >= 5
     /\ k >= 2
     /\ k + 1 <= n - 2
     /\ line[k + 1] = SP
     /\ line[n - 1] = CR
     /\ line[n] = LF
     /\ \A i \in 1..(n - 1) : line[i] # LF
     /\ \A i \in (k + 2)..(n - 2) : line[i] # CR

LineKey(line) == SubSeq(line, 1, FirstColon(line, 1) - 1)
LineValue(line) == SubSeq(line, FirstColon(line, 1) + 2, Len(line) - 2)

\* The lines of seg, each with its terminating LF; bytes after the last LF
\* belong to no line.
RECURSIVE LinesOf(_, _, _)
LinesOf(seg, from, i) ==
  IF i > Len(seg) THEN <<>>
  ELSE IF seg[i] = LF
       THEN <<SubSeq(seg, from, i)>> \o LinesOf(seg, i + 1, i + 1)
       ELSE LinesOf(seg, from, i + 1)

\* strtoul of the value of the last header line of the request bytes seg
\* whose key is key; 0 when the request has no such line.
RECURSIVE LastValue(_, _, _)
LastValue(lines, key, n) ==
  IF n = 0 THEN 0
  ELSE IF IsHeaderLine(lines[n]) /\ LineKey(lines[n]) = key
       THEN strtoul(LineValue(lines[n]))
       ELSE LastValue(lines, key, n - 1)

Asked(seg) ==
  LET lines == LinesOf(seg, 1, 1)
  IN [sleep |-> LastValue(lines, KeySleep, Len(lines)),
      request |-> LastValue(lines, KeyRequest, Len(lines))]

\* ------------------------------------------------------------------- state

VARIABLES
  \* class tcp_connection
  m_instance,     \* the connection's number
  m_reply,        \* replies generated so far
  m_closed,       \* set by the read-error branch of handle_read
  m_eom,          \* parser m_eom("\r\n\r\n")
  m_header,       \* header m_header
  m_sleep,        \* last X-Sleep value of the request being read
  m_request,      \* last X-Request value of the request being read
  m_reply_queue,  \* std::deque<Reply>
  \* the asio objects of the connection
  sock_open,      \* m_socket is open
  reads,          \* async_read_some operations outstanding on m_socket
  timers,         \* timers[n]: the deadline_timer of the n-th Reply made
  writes,         \* async_write operations in flight, oldest first
  wire,           \* the replies handed to async_write, in call order
  \* the process
  running,        \* FALSE once the process has crashed
  freed_use,      \* a handler has used a Reply after its destruction
  \* history
  nreads,         \* read completions handled so far
  segment,        \* bytes read since the last detected boundary
  asked,          \* asked[k]: what the bytes of request k ask for
  made,           \* made[k]: the Reply built at the k-th boundary
  write_failed,   \* a write on the open socket has completed with an error
  \* the boundary matcher and the header extractor on their own
  fed,            \* bytes fed so far
  eom,            \* a parser over EOM
  eom_hits,       \* the stream positions at which eom reported a match
  hdr,            \* a header
  \* one peer's whole byte stream, delivered piece by piece
  stream,         \* the bytes the peer sends
  pos,            \* how many of them the reads have delivered
  \* tcp_server
  m_count,        \* int m_count
  new_connection, \* m_instance of the connection bound to the async_accept
  accepted,       \* m_instance of the connections started, in order
  \* a second tcp_connection of the same process
  conn_b,         \* its members and asio objects, as a World
  \* a driver program
  drv,            \* its locals and the state of its multi handle
  \* queue_reply's rendering on its own
  rendered        \* the last reply rendered

connVars ==
  <<m_instance, m_reply, m_closed, m_eom, m_header, m_sleep, m_request,
    m_reply_queue, sock_open, reads, timers, writes, wire, running,
    freed_use, nreads, segment, asked, made, write_failed>>
unitVars == <<fed, eom, eom_hits, hdr>>
streamVars == <<stream, pos>>
serverVars == <<m_count, new_connection, accepted>>
restVars == <<conn_b, drv, rendered>>
vars == <<connVars, unitVars, streamVars, serverVars, restVars>>

\* The connection and everything its handlers touch, as one value.
World ==
  [m_instance |-> m_instance, m_reply |-> m_reply, m_closed |-> m_closed,
   m_eom |-> m_eom, m_header |-> m_header, m_sleep |-> m_sleep,
   m_request |-> m_request, m_reply_queue |-> m_reply_queue,
   sock_open |-> sock_open, reads |-> reads, timers |-> timers,
   writes |-> writes, wire |-> wire, running |-> running,
   freed_use |-> freed_use, nreads |-> nreads, segment |-> segment,
   asked |-> asked, made |-> made, write_failed |-> write_failed]

Commit(w) ==
  /\ m_instance' = w.m_instance
  /\ m_reply' = w.m_reply
  /\ m_closed' = w.m_closed
  /\ m_eom' = w.m_eom
  /\ m_header' = w.m_header
  /\ m_sleep' = w.m_sleep
  /\ m_request' = w.m_request
  /\ m_reply_queue' = w.m_reply_queue
  /\ sock_open' = w.sock_open
  /\ reads' = w.reads
  /\ timers' = w.timers
  /\ writes' = w.writes
  /\ wire' = w.wire
  /\ running' = w.running
  /\ freed_use' = w.freed_use
  /\ nreads' = w.nreads
  /\ segment' = w.segment
  /\ asked' = w.asked
  /\ made' = w.made
  /\ write_failed' = w.write_failed

\* ------------------------------------------------------------- class Reply

\* A Reply: the rendered bytes (by their fields), the sleep marker, and id,
\* the number of the deadline_timer the constructor made for it.
NewReply(str, id) == [str |-> str, m_sleep |-> 0, id |-> id]

is_sleeping(r) == r.m_sleep # 0

\* ~Reply releases m_timer; the timer's destructor cancels an outstanding
\* wait, whose handler is then queued with operation_aborted.  A handler
\* already queued keeps the error code it was queued with.
Destroy(tm, r) ==
  IF tm[r.id] = "waiting" THEN [tm EXCEPT ![r.id] = "aborted"] ELSE tm

RECURSIVE DestroyAll(_, _)
DestroyAll(tm, q) ==
  IF q = <<>> THEN tm ELSE DestroyAll(Destroy(tm, Head(q)), Tail(q))

\* Reply::set_sleeping on the queue element at position i.
set_sleeping(w, i, sleep) ==
  IF sleep > 0
  THEN [w EXCEPT !.m_reply_queue[i].m_sleep = sleep,
                 !.timers[w.m_reply_queue[i].id] = "waiting"]
  ELSE w

\* ---------------------------------------------------- class tcp_connection

\* flush with the ready replies behind a sleeping front written at once.
flush_past_sleepers(w) ==
  LET ready == SelectSeq(w.m_reply_queue, LAMBDA r : ~is_sleeping(r))
  IN [w EXCEPT !.wire = @ \o [i \in 1..Len(ready) |-> ready[i].str],
               !.writes = @ \o [i \in 1..Len(ready) |-> ready[i].str.reply],
               !.m_reply_queue = SelectSeq(@, is_sleeping)]

\* flush without the test of is_sleeping: the whole queue is written.
flush_ignores_sleep(w) ==
  [w EXCEPT !.wire = @ \o [i \in 1..Len(w.m_reply_queue) |-> w.m_reply_queue[i].str],
            !.writes = @ \o [i \in 1..Len(w.m_reply_queue) |-> w.m_reply_queue[i].str.reply],
            !.timers = DestroyAll(@, w.m_reply_queue),
            !.m_reply_queue = <<>>]

\* flush that writes the front reply only.
flush_front_only(w) ==
  IF w.m_reply_queue = <<>> THEN w
  ELSE LET r == Head(w.m_reply_queue)
       IN IF is_sleeping(r) THEN w
          ELSE [w EXCEPT !.wire = Append(@, r.str),
                         !.writes = Append(@, r.str.reply),
                         !.timers = Destroy(@, r),
                         !.m_reply_queue = Tail(@)]

\* The while loop of process_replies.
RECURSIVE flush(_)
flush(w) ==
  IF w.m_reply_queue = <<>> THEN w
  ELSE LET r == Head(w.m_reply_queue)
       IN IF is_sleeping(r) THEN w
          ELSE flush([w EXCEPT !.wire = Append(@, r.str),
                               !.writes = Append(@, r.str.reply),
                               !.timers = Destroy(@, r),
                               !.m_reply_queue = Tail(@)])

process_replies(w) ==
  IF w.m_closed THEN w
  ELSE IF w.m_reply_queue = <<>> THEN w
  ELSE flush(w)

\* queue_reply with X-Reply rendered from m_reply before the increment.
queue_reply_numbers_from_zero(w) ==
  LET n == w.m_reply + 1
      str == [connection |-> w.m_instance, request |-> w.m_request,
              reply |-> w.m_reply,
              body |-> [reply |-> n, connection |-> w.m_instance,
                        request |-> w.m_request]]
      id == Len(w.timers) + 1
      w1 == [w EXCEPT !.m_reply = n,
                      !.m_request = 0,
                      !.timers = Append(@, "idle"),
                      !.m_reply_queue = Append(@, NewReply(str, id))]
      w2 == IF w1.m_sleep # 0
            THEN set_sleeping(w1, Len(w1.m_reply_queue), w1.m_sleep)
            ELSE w1
      w3 == [w2 EXCEPT !.made = Append(@, w2.m_reply_queue[Len(w2.m_reply_queue)])]
  IN process_replies(w3)

\* queue_reply without "m_request = 0".
queue_reply_keeps_request(w) ==
  LET n == w.m_reply + 1
      str == [connection |-> w.m_instance, request |-> w.m_request,
              reply |-> n,
              body |-> [reply |-> n, connection |-> w.m_instance,
                        request |-> w.m_request]]
      id == Len(w.timers) + 1
      w1 == [w EXCEPT !.m_reply = n,
                      !.timers = Append(@, "idle"),
                      !.m_reply_queue = Append(@, NewReply(str, id))]
      w2 == IF w1.m_sleep # 0
            THEN set_sleeping(w1, Len(w1.m_reply_queue), w1.m_sleep)
            ELSE w1
      w3 == [w2 EXCEPT !.made = Append(@, w2.m_reply_queue[Len(w2.m_reply_queue)])]
  IN process_replies(w3)

\* queue_reply: render the reply (the two snprintf calls, as the fields they
\* print), clear m_request, push the Reply, put it to sleep when m_sleep is
\* set, and flush.
queue_reply(w) ==
  LET n == w.m_reply + 1
      str == [connection |-> w.m_instance, request |-> w.m_request,
              reply |-> n,
              body |-> [reply |-> n, connection |-> w.m_instance,
                        request |-> w.m_request]]
      id == Len(w.timers) + 1
      w1 == [w EXCEPT !.m_reply = n,
                      !.m_request = 0,
                      !.timers = Append(@, "idle"),
                      !.m_reply_queue = Append(@, NewReply(str, id))]
      w2 == IF w1.m_sleep # 0
            THEN set_sleeping(w1, Len(w1.m_reply_queue), w1.m_sleep)
            ELSE w1
      w3 == [w2 EXCEPT !.made = Append(@, w2.m_reply_queue[Len(w2.m_reply_queue)])]
  IN process_replies(w3)

\* read_byte without "m_sleep = 0" after queue_reply.
read_byte_keeps_sleep(w, c) ==
  LET e1 == ParserFeed(w.m_eom, EOM, c)
      h1 == HeaderFeed(w.m_header, c)
      w1 == [w EXCEPT !.m_eom = e1, !.m_header = h1,
                      !.segment = Append(@, c)]
  IN IF e1.m_match
     THEN LET w2 == [w1 EXCEPT !.m_eom = ParserReset,
                               !.m_header = HeaderReset,
                               !.asked = Append(@, Asked(w1.segment)),
                               !.segment = <<>>]
          IN queue_reply(w2)
     ELSE IF HeaderMatched(h1)
          THEN IF h1.m_key = KeySleep
               THEN [w1 EXCEPT !.m_sleep = strtoul(h1.m_value)]
               ELSE IF h1.m_key = KeyRequest
                    THEN [w1 EXCEPT !.m_request = strtoul(h1.m_value)]
                    ELSE w1
          ELSE w1

\* read_byte with the value of a header of any other key taken as X-Sleep.
read_byte_other_key_sleeps(w, c) ==
  LET e1 == ParserFeed(w.m_eom, EOM, c)
      h1 == HeaderFeed(w.m_header, c)
      w1 == [w EXCEPT !.m_eom = e1, !.m_header = h1,
                      !.segment = Append(@, c)]
  IN IF e1.m_match
     THEN LET w2 == [w1 EXCEPT !.m_eom = ParserReset,
                               !.m_header = HeaderReset,
                               !.asked = Append(@, Asked(w1.segment)),
                               !.segment = <<>>]
          IN [queue_reply(w2) EXCEPT !.m_sleep = 0]
     ELSE IF HeaderMatched(h1)
          THEN IF h1.m_key = KeyRequest
               THEN [w1 EXCEPT !.m_request = strtoul(h1.m_value)]
               ELSE [w1 EXCEPT !.m_sleep = strtoul(h1.m_value)]
          ELSE w1

\* The body of handle_read's for loop, for the byte c.
read_byte(w, c) ==
  LET e1 == ParserFeed(w.m_eom, EOM, c)
      h1 == HeaderFeed(w.m_header, c)
      w1 == [w EXCEPT !.m_eom = e1, !.m_header = h1,
                      !.segment = Append(@, c)]
  IN IF e1.m_match
     THEN LET w2 == [w1 EXCEPT !.m_eom = ParserReset,
                               !.m_header = HeaderReset,
                               !.asked = Append(@, Asked(w1.segment)),
                               !.segment = <<>>]
          IN [queue_reply(w2) EXCEPT !.m_sleep = 0]
     ELSE IF HeaderMatched(h1)
          THEN IF h1.m_key = KeySleep
               THEN [w1 EXCEPT !.m_sleep = strtoul(h1.m_value)]
               ELSE IF h1.m_key = KeyRequest
                    THEN [w1 EXCEPT !.m_request = strtoul(h1.m_value)]
                    ELSE w1
          ELSE w1

\* The for loop of handle_read over the bytes of buf, first to last.  (The
\* bytes are taken as a first and a second half, and the test on nreads,
\* always true, makes TLC finish the first half before the second: both
\* keep the evaluation shallow for a long buf.)
RECURSIVE read_bytes(_, _)
read_bytes(w, buf) ==
  IF buf = <<>> THEN w
  ELSE IF Len(buf) = 1 THEN read_byte(w, buf[1])
  ELSE LET h == Len(buf) \div 2
           w1 == read_bytes(w, SubSeq(buf, 1, h))
       IN IF w1.nreads >= 0
          THEN read_bytes(w1, SubSeq(buf, h + 1, Len(buf)))
          ELSE w1

\* handle_read_ok reading on only when no reply is pending.
handle_read_ok_waits_for_queue(w, buf) ==
  LET w1 == read_bytes([w EXCEPT !.reads = @ - 1, !.nreads = @ + 1], buf)
  IN IF w1.m_reply_queue = <<>> THEN [w1 EXCEPT !.reads = @ + 1] ELSE w1

\* handle_read_ok with the two parsers reset at the start of every read.
handle_read_ok_resets_parsers(w, buf) ==
  LET w1 == read_bytes([w EXCEPT !.reads = @ - 1, !.nreads = @ + 1,
                                 !.m_eom = ParserReset,
                                 !.m_header = HeaderReset], buf)
  IN [w1 EXCEPT !.reads = @ + 1]

\* handle_read with no error: the for loop, then the next async_read_some.
handle_read_ok(w, buf) ==
  LET w1 == read_bytes([w EXCEPT !.reads = @ - 1, !.nreads = @ + 1], buf)
  IN [w1 EXCEPT !.reads = @ + 1]

\* handle_read_error without "m_reply_queue.clear()".
handle_read_error_keeps_queue(w) ==
  [w EXCEPT !.reads = @ - 1,
            !.nreads = @ + 1,
            !.sock_open = FALSE,
            !.m_closed = TRUE]

\* handle_read with an error that is not operation_aborted.  (No code path
\* cancels an outstanding read, so operation_aborted never reaches it.)
handle_read_error(w) ==
  [w EXCEPT !.reads = @ - 1,
            !.nreads = @ + 1,
            !.timers = DestroyAll(@, w.m_reply_queue),
            !.m_reply_queue = <<>>,
            !.sock_open = FALSE,
            !.m_closed = TRUE]

\* handle_write for the oldest write in flight, completing with the error
\* code e.  Both branches only log: the queue, the socket and m_closed are
\* left as they were.
handle_write(w, e) ==
  [w EXCEPT !.writes = Tail(@),
            !.write_failed = @ \/ (e = "error" /\ w.sock_open)]

\* Position in the queue of the Reply whose timer is number id, or 0 when
\* that Reply has been destroyed.
RECURSIVE IndexOf(_, _, _)
IndexOf(q, id, i) ==
  IF i > Len(q) THEN 0
  ELSE IF q[i].id = id THEN i ELSE IndexOf(q, id, i + 1)

\* timed_out without the call of process_replies.
timed_out_without_flush(w, id, outcome) ==
  IF w.timers[id] = "aborted"
  THEN [w EXCEPT !.timers[id] = "cancelled"]
  ELSE LET i == IndexOf(w.m_reply_queue, id, 1)
       IN IF i > 0
          THEN [w EXCEPT !.timers[id] = "fired",
                         !.m_reply_queue[i].m_sleep = 0]
          ELSE [w EXCEPT !.timers[id] = "fired",
                         !.freed_use = TRUE,
                         !.running = (outcome = "unharmed")]

\* Reply::timed_out, run by the event loop for timer number id.  The
\* handler was bound to the address of the queue element; when the element
\* has been destroyed, the store to m_sleep and the load of m_connection
\* use freed memory, and what follows is not defined: the process goes on
\* unharmed or it crashes, as outcome says.
timed_out(w, id, outcome) ==
  IF w.timers[id] = "aborted"
  THEN [w EXCEPT !.timers[id] = "cancelled"]
  ELSE LET i == IndexOf(w.m_reply_queue, id, 1)
       IN IF i > 0
          THEN process_replies([w EXCEPT !.timers[id] = "fired",
                                         !.m_reply_queue[i].m_sleep = 0])
          ELSE [w EXCEPT !.timers[id] = "fired",
                         !.freed_use = TRUE,
                         !.running = (outcome = "unharmed")]

\* ------------------------------------------------ the rendering of a reply

\* The largest int.
INT_MAX == 2147483647

DigitChar == <<"0", "1", "2", "3", "4", "5", "6", "7", "8", "9">>

\* What %d prints for n >= 0.
RECURSIVE FormatD(_)
FormatD(n) ==
  IF n < 10 THEN <<DigitChar[n + 1]>>
  ELSE Append(FormatD(n \div 10), DigitChar[(n % 10) + 1])

\* What %lu prints for the program's ULONG_MAX, for which the model's
\* ULONG_MAX stands.
ULONG_MAX_digits ==
  <<"1", "8", "4", "4", "6", "7", "4", "4", "0", "7", "3", "7", "0",
    "9", "5", "5", "1", "6", "1", "5">>

\* What %lu prints.
FormatLu(n) == IF n = ULONG_MAX THEN ULONG_MAX_digits ELSE FormatD(n)

\* The pieces of the format string reply between its conversions.
FormatStatus ==
  <<"H", "T", "T", "P", "/", "1", ".", "1", SP, "2", "0", "0", SP,
    "O", "K", CR, LF, "K", "e", "e", "p", "-", "A", "l", "i", "v",
    "e", COLON, SP, "t", "i", "m", "e", "o", "u", "t", "=", "1", "0",
    SP, "m", "a", "x", "=", "4", "0", "0", CR, LF, "C", "o", "n",
    "t", "e", "n", "t", "-", "L", "e", "n", "g", "t", "h", COLON, SP>>
FormatType ==
  <<CR, LF, "C", "o", "n", "t", "e", "n", "t", "-", "T", "y", "p",
    "e", COLON, SP, "t", "e", "x", "t", "/", "h", "t", "m", "l", CR,
    LF, "X", "-", "C", "o", "n", "n", "e", "c", "t", "i", "o", "n",
    COLON, SP>>
FormatRequest ==
  <<CR, LF, "X", "-", "R", "e", "q", "u", "e", "s", "t", COLON, SP>>
FormatReply ==
  <<CR, LF, "X", "-", "R", "e", "p", "l", "y", COLON, SP>>
FormatOpen ==
  <<CR, LF, CR, LF, "<", "h", "t", "m", "l", ">", "<", "b", "o", "d",
    "y", ">">>
FormatClose ==
  <<"<", "/", "b", "o", "d", "y", ">", "<", "/", "h", "t", "m", "l",
    ">", LF>>

\* The pieces of the format string of body.
BodyReply ==
  <<"R", "e", "p", "l", "y", SP>>
BodyConnection ==
  <<SP, "o", "n", SP, "c", "o", "n", "n", "e", "c", "t", "i", "o",
    "n", SP>>
BodyRequest ==
  <<SP, "f", "o", "r", SP, "r", "e", "q", "u", "e", "s", "t", SP,
    "#">>

\* The first snprintf of queue_reply, with n the value of ++m_reply.
FormatBody(n, instance, request) ==
  BodyReply \o FormatD(n) \o BodyConnection \o FormatD(instance)
    \o BodyRequest \o FormatLu(request)

\* content_length without the '\n' that ends the reply.
content_length_without_newline(body) == Len(body) + 26

\* The argument of the first %lu of reply: strlen(body) + 27.
content_length(body) == Len(body) + 27

\* The second snprintf of queue_reply.
FormatReplyBuf(n, instance, request) ==
  LET body == FormatBody(n, instance, request)
  IN FormatStatus \o FormatLu(content_length(body))
       \o FormatType \o FormatD(instance)
       \o FormatRequest \o FormatLu(request)
       \o FormatReply \o FormatD(n)
       \o FormatOpen \o body \o FormatClose

\* What queue_reply renders: what the two snprintf calls return and the
\* bytes of buf.
Rendering(n, instance, request) ==
  [body_size |-> Len(FormatBody(n, instance, request)),
   size |-> Len(FormatReplyBuf(n, instance, request)),
   buf |-> FormatReplyBuf(n, instance, request)]

\* sizeof body and sizeof buf.
SizeofBody == 256
SizeofBuf == 512

\* -------------------------------------------------------- class tcp_server

Server ==
  [m_count |-> m_count, new_connection |-> new_connection,
   accepted |-> accepted]

\* start_accept with the connection made from m_count as it is.
start_accept_keeps_count(srv) ==
  [srv EXCEPT !.new_connection = srv.m_count]

\* start_accept: create(io_service, ++m_count), then async_accept on it.
start_accept(srv) ==
  [srv EXCEPT !.m_count = @ + 1,
              !.new_connection = srv.m_count + 1]

\* handle_accept: start the connection unless the accept failed; accept
\* again in both cases.
handle_accept(srv, error) ==
  start_accept(IF ~error
               THEN [srv EXCEPT !.accepted = Append(@, srv.new_connection)]
               ELSE srv)

\* ------------------------------------------------------------- the drivers

\* The two driver programs, which = 1 and which = 2.  A driver is a record:
\* its locals added, running and still_running, pc for its place in main,
\* and of its multi handle the number of easy handles whose transfer is
\* not complete (inflight) and of CURLMSG_DONE messages not yet read (msgs).
\* History: finished counts the transfers completed, processed the
\* messages read, order lists the indexes of handles[] added.

\* The total number of requests, and the number kept in the pipeline.
NRREQUESTS(which) == IF which = 1 THEN 32 ELSE 10
PIPELEN(which) == IF which = 1 THEN 6 ELSE 4

\* curl_multi_add_handle(multi_handle, handles[added]).
curl_multi_add_handle(d) ==
  [d EXCEPT !.inflight = @ + 1, !.order = Append(@, d.added)]

\* Add the next handle and count it: add_next_handle of the second driver,
\* the body of the refill loop of the first.
add_next_handle(d) ==
  [curl_multi_add_handle(d) EXCEPT !.running = @ + 1, !.added = @ + 1]

\* The first driver's probe: handles[added++] is added before running is
\* declared and is not counted in it.
add_probe_uncounted(d) ==
  [curl_multi_add_handle(d) EXCEPT !.added = @ + 1]

\* curl_multi_perform when k of the transfers in progress complete: each
\* leaves a CURLMSG_DONE message, still_running is the number left.
curl_multi_perform(d, k) ==
  [d EXCEPT !.inflight = @ - k,
            !.msgs = @ + k,
            !.finished = @ + k,
            !.still_running = d.inflight - k]

\* The curl_multi_info_read loop: every message is about one of handles[]
\* and takes one off running.
process_results(d) ==
  [d EXCEPT !.running = @ - d.msgs,
            !.processed = @ + d.msgs,
            !.msgs = 0]

\* refill that counts from running in place of still_running.
RECURSIVE refill_from_running(_, _)
refill_from_running(d, n) ==
  IF d.running < PIPELEN(d.which) /\ d.added < NRREQUESTS(d.which)
  THEN refill_from_running(add_next_handle(d), n + 1)
  ELSE d

\* The for loop at the top of the main loop, with n as it stands.
RECURSIVE refill(_, _)
refill(d, n) ==
  IF n < PIPELEN(d.which) /\ d.added < NRREQUESTS(d.which)
  THEN refill(add_next_handle(d), n + 1)
  ELSE d

\* main up to the probe's curl_multi_add_handle.
DriverStart(which) ==
  LET d == [which |-> which, pc |-> "probe", added |-> 0, running |-> 0,
            still_running |-> 0, inflight |-> 0, msgs |-> 0,
            finished |-> 0, processed |-> 0, order |-> <<>>]
  IN IF which = 1 THEN add_probe_uncounted(d) ELSE add_next_handle(d)

\* ------------------------------------------------------------------ inputs

\* What one successful read may deliver.  The pieces make whole requests,
\* requests split inside a header line and inside the separator, two
\* requests in one read, a header given twice, a malformed header line,
\* and a stray '\r'.
Chunks ==
  { KeySleep \o <<COLON, SP, "1">> \o CRLF,
    KeySleep \o <<COLON, SP, "2">>,
    KeyRequest \o <<COLON, SP, "7">> \o CRLF,
    KeyRequest \o <<COLON, SP, "8">> \o CRLF,
    KeySleep \o <<COLON, "1">> \o CRLF,
    CRLF,
    <<CR>>,
    KeySleep \o <<COLON, SP, "1">> \o CRLF \o CRLF
      \o KeyRequest \o <<COLON, SP, "7">> \o CRLF \o CRLF }

\* Header and request lines a peer sends.  The driver sends X-Sleep,
\* X-Request and, with one request, "X-Disconnect: yes".
ReqLine == <<"G", "E", "T", SP, "/">> \o CRLF
SleepLine(v) == KeySleep \o <<COLON, SP>> \o v \o CRLF
RequestLine(v) == KeyRequest \o <<COLON, SP>> \o v \o CRLF
DisconnectLine ==
  <<"X", "-", "D", "i", "s", "c", "o", "n", "n", "e", "c", "t">>
    \o <<COLON, SP, "y", "e", "s">> \o CRLF
SleepyLine == KeySleep \o <<"y", COLON, SP, "3">> \o CRLF

\* The whole streams of one peer: requests with a header the server does
\* not know between the ones it knows, values that are no decimal number
\* (empty, letters, digits then a letter, negative), a header given twice,
\* and two requests back to back.
Streams ==
  { ReqLine \o SleepLine(<<"1">>) \o DisconnectLine \o RequestLine(<<"7">>) \o CRLF
      \o SleepyLine \o RequestLine(<<"8">>) \o CRLF,
    SleepLine(<<>>) \o RequestLine(<<"a", "b", "c">>) \o CRLF,
    SleepLine(<<"5", "x">>) \o CRLF,
    RequestLine(<<"-", "1">>) \o CRLF,
    SleepLine(<<"2">>) \o SleepLine(<<"1">>) \o CRLF \o RequestLine(<<"7">>) \o CRLF }

\* One whole request in one read, with and without a delay.
WholeRequests == { SleepLine(<<"1">>) \o CRLF, ReqLine \o CRLF }

\* The values queue_reply renders: one to ten digits for the ints, one to
\* twenty for the unsigned long.
ReplyNumbers == {1, 9, 10, 99, 100, INT_MAX}
Instances == {1, 10, 100, INT_MAX}
RequestIds == {0, 7, 10, 999, ULONG_MAX}

\* Before anything is rendered.
NoRendering == [body_size |-> 0, size |-> 0, buf |-> <<>>]

\* The bytes fed to the boundary matcher and the header extractor alone.
FeedBytes == {"k", COLON, SP, CR, LF}

\* --------------------------------------------------------------- behaviour

ConnInit ==
  /\ m_instance = 1
  /\ m_reply = 0
  /\ m_closed = FALSE
  /\ m_eom = ParserReset
  /\ m_header = HeaderReset
  /\ m_sleep = 0
  /\ m_request = 0
  /\ m_reply_queue = <<>>
  /\ sock_open = TRUE
  /\ reads = 1
  /\ timers = <<>>
  /\ writes = <<>>
  /\ wire = <<>>
  /\ running = TRUE
  /\ freed_use = FALSE
  /\ nreads = 0
  /\ segment = <<>>
  /\ asked = <<>>
  /\ made = <<>>
  /\ write_failed = FALSE

\* The connection of ConnInit as one value.
NewConnection ==
  [m_instance |-> 1, m_reply |-> 0, m_closed |-> FALSE,
   m_eom |-> ParserReset, m_header |-> HeaderReset, m_sleep |-> 0,
   m_request |-> 0, m_reply_queue |-> <<>>, sock_open |-> TRUE,
   reads |-> 1, timers |-> <<>>, writes |-> <<>>, wire |-> <<>>,
   running |-> TRUE, freed_use |-> FALSE, nreads |-> 0, segment |-> <<>>,
   asked |-> <<>>, made |-> <<>>, write_failed |-> FALSE]

UnitInit ==
  /\ fed = <<>>
  /\ eom = ParserReset
  /\ eom_hits = {}
  /\ hdr = HeaderReset

\* The second connection the listener makes, started: one read armed.
PeerInit == conn_b = [NewConnection EXCEPT !.m_instance = 2]

\* The state after tcp_server's constructor: m_count(0), then start_accept.
ServerInit ==
  /\ m_count = 1
  /\ new_connection = 1
  /\ accepted = <<>>

\* The state after tcp_connection::create and start(): one read armed.
Init ==
  /\ ConnInit /\ UnitInit /\ stream = <<>> /\ pos = 0 /\ ServerInit
  /\ PeerInit /\ drv = DriverStart(2) /\ rendered = NoRendering

\* A read completes with the bytes buf.
HandleRead(buf) ==
  /\ running /\ sock_open /\ reads > 0
  /\ nreads < MaxReads
  /\ LET w == handle_read_ok(World, buf)
     IN w.m_reply <= MaxReplies /\ Commit(w)
  /\ UNCHANGED <<unitVars, streamVars, serverVars, restVars>>

\* A read completes with an error (the peer went away).
HandleReadError ==
  /\ running /\ sock_open /\ reads > 0
  /\ Commit(handle_read_error(World))
  /\ UNCHANGED <<unitVars, streamVars, serverVars, restVars>>

\* The deadline of timer id passes: its handler is queued with success.
TimerExpires(id) ==
  /\ running
  /\ timers[id] = "waiting"
  /\ timers' = [timers EXCEPT ![id] = "expired"]
  /\ UNCHANGED <<m_instance, m_reply, m_closed, m_eom, m_header, m_sleep,
                 m_request, m_reply_queue, sock_open, reads, writes, wire,
                 running, freed_use, nreads, segment, asked, made,
                 write_failed>>
  /\ UNCHANGED <<unitVars, streamVars, serverVars, restVars>>

\* The event loop runs the queued handler of timer id.
TimedOut(id) ==
  /\ running
  /\ timers[id] \in {"expired", "aborted"}
  /\ \E outcome \in {"unharmed", "crash"} : Commit(timed_out(World, id, outcome))
  /\ UNCHANGED <<unitVars, streamVars, serverVars, restVars>>

\* The oldest write in flight completes; on a closed socket with an error.
HandleWrite ==
  /\ running
  /\ writes # <<>>
  /\ \E e \in {"ok", "error"} :
       /\ (e = "ok" => sock_open)
       /\ Commit(handle_write(World, e))
  /\ UNCHANGED <<unitVars, streamVars, serverVars, restVars>>

Next ==
  \/ \E buf \in Chunks : HandleRead(buf)
  \/ HandleReadError
  \/ \E id \in 1..MaxReplies : id <= Len(timers) /\ TimerExpires(id)
  \/ \E id \in 1..MaxReplies : id <= Len(timers) /\ TimedOut(id)
  \/ HandleWrite

Spec == Init /\ [][Next]_vars

\* Every timer started reaches its deadline, and io_service::run runs
\* every handler that is queued.
TimersFire ==
  \A id \in 1..MaxReplies :
    /\ WF_vars(id <= Len(timers) /\ TimerExpires(id))
    /\ WF_vars(id <= Len(timers) /\ TimedOut(id))

\* The connection with every read delivering one whole request, delayed
\* or not.
LiveNext ==
  \/ \E buf \in WholeRequests : HandleRead(buf)
  \/ HandleReadError
  \/ \E id \in 1..MaxReplies : id <= Len(timers) /\ TimerExpires(id)
  \/ \E id \in 1..MaxReplies : id <= Len(timers) /\ TimedOut(id)
  \/ HandleWrite

LiveSpec == Init /\ [][LiveNext]_vars /\ TimersFire

\* The parsing part of handle_read's loop on its own: the byte goes to the
\* boundary matcher and to the header extractor, and a match resets both.
FeedByte(c) ==
  /\ Len(fed) < MaxFeed
  /\ LET e1 == ParserFeed(eom, EOM, c)
         h1 == HeaderFeed(hdr, c)
     IN /\ fed' = Append(fed, c)
        /\ eom' = IF e1.m_match THEN ParserReset ELSE e1
        /\ hdr' = IF e1.m_match THEN HeaderReset ELSE h1
        /\ eom_hits' = IF e1.m_match THEN eom_hits \cup {Len(fed) + 1} ELSE eom_hits
  /\ UNCHANGED <<connVars, streamVars, serverVars, restVars>>

FeedNext == \E c \in FeedBytes : FeedByte(c)

FeedSpec == Init /\ [][FeedNext]_vars

\* The listener on its own: the outstanding accept completes, with or
\* without an error.
HandleAccept(error) ==
  /\ m_count < MaxAccepts
  /\ LET srv == handle_accept(Server, error)
     IN /\ m_count' = srv.m_count
        /\ new_connection' = srv.new_connection
        /\ accepted' = srv.accepted
  /\ UNCHANGED <<connVars, unitVars, streamVars, restVars>>

AcceptNext == \E error \in BOOLEAN : HandleAccept(error)

AcceptSpec == Init /\ [][AcceptNext]_vars

\* Two connections of one process side by side.  The first is the
\* connection of Spec, the second is conn_b; both are served by the one
\* io_service, so that running is the state of both.  Every read delivers
\* one whole request; the first connection may meet a read error.
PeerUnchanged ==
  UNCHANGED <<m_instance, m_reply, m_closed, m_eom, m_header, m_sleep,
              m_request, m_reply_queue, sock_open, reads, timers, writes,
              wire, freed_use, nreads, segment, asked, made, write_failed,
              unitVars, streamVars, serverVars, drv, rendered>>

PairRead(buf) == m_reply < MaxPairReplies /\ HandleRead(buf)

PeerRead(buf) ==
  /\ running /\ conn_b.sock_open /\ conn_b.reads > 0
  /\ conn_b.m_reply < MaxPairReplies
  /\ conn_b' = handle_read_ok(conn_b, buf)
  /\ UNCHANGED running
  /\ PeerUnchanged

PeerTimerExpires(id) ==
  /\ running
  /\ conn_b.timers[id] = "waiting"
  /\ conn_b' = [conn_b EXCEPT !.timers[id] = "expired"]
  /\ UNCHANGED running
  /\ PeerUnchanged

PeerTimedOut(id) ==
  /\ running
  /\ conn_b.timers[id] \in {"expired", "aborted"}
  /\ \E outcome \in {"unharmed", "crash"} :
       LET w == timed_out(conn_b, id, outcome)
       IN conn_b' = w /\ running' = w.running
  /\ PeerUnchanged

PairNext ==
  \/ \E buf \in WholeRequests : PairRead(buf)
  \/ HandleReadError
  \/ \E id \in 1..MaxPairReplies : id <= Len(timers) /\ TimerExpires(id)
  \/ \E id \in 1..MaxPairReplies : id <= Len(timers) /\ TimedOut(id)
  \/ \E buf \in WholeRequests : PeerRead(buf)
  \/ \E id \in 1..MaxPairReplies :
       id <= Len(conn_b.timers) /\ PeerTimerExpires(id)
  \/ \E id \in 1..MaxPairReplies :
       id <= Len(conn_b.timers) /\ PeerTimedOut(id)

PairSpec == Init /\ [][PairNext]_vars

\* A driver on its own.

\* The "brute force" loop: curl_multi_perform until still_running is 0;
\* the second driver then reads the results, and exits when the probe was
\* refused.
DriverProbe ==
  /\ drv.pc = "probe"
  /\ LET d == curl_multi_perform(drv, drv.inflight)
     IN IF drv.which = 1
        THEN drv' = [d EXCEPT !.pc = "refill"]
        ELSE \E refused \in BOOLEAN :
               drv' = [process_results(d) EXCEPT
                         !.pc = IF refused THEN "exit" ELSE "refill"]
  /\ UNCHANGED <<connVars, unitVars, streamVars, serverVars, conn_b, rendered>>

DriverRefill ==
  /\ drv.pc = "refill"
  /\ drv' = [refill(drv, drv.still_running) EXCEPT !.pc = "perform"]
  /\ UNCHANGED <<connVars, unitVars, streamVars, serverVars, conn_b, rendered>>

DriverPerform(k) ==
  /\ drv.pc = "perform"
  /\ k <= drv.inflight
  /\ drv' = [curl_multi_perform(drv, k) EXCEPT !.pc = "results"]
  /\ UNCHANGED <<connVars, unitVars, streamVars, serverVars, conn_b, rendered>>

\* The results loop; in the second driver a transfer that was refused
\* ends the program.
DriverResults ==
  /\ drv.pc = "results"
  /\ \E refused \in BOOLEAN :
       /\ refused => (drv.which = 2 /\ drv.msgs > 0)
       /\ drv' = [process_results(drv) EXCEPT
                    !.pc = IF refused THEN "exit" ELSE "test"]
  /\ UNCHANGED <<connVars, unitVars, streamVars, serverVars, conn_b, rendered>>

\* The exit test, and in the second driver the "continue" that refills at
\* once.
DriverTest ==
  /\ drv.pc = "test"
  /\ drv' = [drv EXCEPT !.pc =
       IF drv.running = 0 /\ drv.added = NRREQUESTS(drv.which) THEN "done"
       ELSE IF /\ drv.which = 2
               /\ drv.still_running < PIPELEN(drv.which)
               /\ drv.added < NRREQUESTS(drv.which)
            THEN "refill"
            ELSE "select"]
  /\ UNCHANGED <<connVars, unitVars, streamVars, serverVars, conn_b, rendered>>

\* select returns, with or without an error.
DriverSelect ==
  /\ drv.pc = "select"
  /\ \E rc \in {0, -1} :
       drv' = [drv EXCEPT !.pc = IF rc = -1 THEN "select_error" ELSE "refill"]
  /\ UNCHANGED <<connVars, unitVars, streamVars, serverVars, conn_b, rendered>>

DriverNext ==
  \/ DriverProbe
  \/ DriverRefill
  \/ \E k \in 0..PIPELEN(drv.which) : DriverPerform(k)
  \/ DriverResults
  \/ DriverTest
  \/ DriverSelect

DriverInit ==
  /\ ConnInit /\ UnitInit /\ stream = <<>> /\ pos = 0 /\ ServerInit
  /\ PeerInit /\ drv \in {DriverStart(1), DriverStart(2)}
  /\ rendered = NoRendering

DriverSpec == DriverInit /\ [][DriverNext]_vars

\* The rendering on its own: queue_reply renders the reply numbered n on
\* connection instance for the request id request.
Render(n, instance, request) ==
  /\ rendered' = Rendering(n, instance, request)
  /\ UNCHANGED <<connVars, unitVars, streamVars, serverVars, conn_b, drv>>

RenderNext ==
  \E n \in ReplyNumbers, instance \in Instances, request \in RequestIds :
    Render(n, instance, request)

RenderSpec == Init /\ [][RenderNext]_vars

\* The read path on its own: the peer's stream is fixed at the start and
\* each read delivers the next 1 to MaxPiece bytes of it, so that the reads
\* cut the stream at every position.
StreamInit ==
  /\ ConnInit /\ UnitInit /\ stream \in Streams /\ pos = 0 /\ ServerInit
  /\ PeerInit /\ drv = DriverStart(2) /\ rendered = NoRendering

ReadPiece(n) ==
  /\ running /\ sock_open /\ reads > 0
  /\ pos + n <= Len(stream)
  /\ Commit(handle_read_ok(World, SubSeq(stream, pos + 1, pos + n)))
  /\ pos' = pos + n
  /\ UNCHANGED <<unitVars, stream, serverVars, restVars>>

StreamNext == \E n \in 1..MaxPiece : ReadPiece(n)

StreamSpec == StreamInit /\ [][StreamNext]_vars

\* ------------------------------------------------------------------ claims

\* The position in creation order of the Reply whose bytes are str.
CreatedAt(str) == CHOOSE k \in 1..Len(made) : made[k].str = str

QueueIds == {m_reply_queue[i].id : i \in 1..Len(m_reply_queue)}
Written(k) == \E i \in 1..Len(wire) : wire[i] = made[k].str
Fired(k) == timers[made[k].id] = "fired"

\* C1: replies reach the socket in the order their boundaries were detected:
\* the written replies are in creation order, and every written reply was
\* created before every reply still in the queue, whatever the delays and
\* whichever timer expired first.
C1_WrittenInCreationOrder ==
  /\ \A i \in 1..Len(wire) : \E k \in 1..Len(made) : made[k].str = wire[i]
  /\ \A i, j \in 1..Len(wire) :
       i < j => CreatedAt(wire[i]) < CreatedAt(wire[j])
  /\ \A i \in 1..Len(wire) : \A q \in QueueIds :
       made[CreatedAt(wire[i])].id < q

\* A delayed reply was written, and after it a later reply that had no delay.
C1_Witness ==
  \E i, j \in 1..Len(wire) :
    /\ i < j
    /\ made[CreatedAt(wire[i])].m_sleep > 0
    /\ made[CreatedAt(wire[j])].m_sleep = 0

\* C2: a reply whose request carried X-Sleep > 0 is written only after its
\* own timer's handler ran with success, and it leaves the queue only by
\* being written so or by the read error that closes the connection.
C2_DelayedWrittenOnlyAfterTimer ==
  \A k \in 1..Len(made) :
    made[k].m_sleep > 0 =>
      /\ Written(k) => Fired(k)
      /\ \/ made[k].id \in QueueIds
         \/ Written(k)
         \/ m_closed

\* A delayed reply is on the wire.
C2_Witness ==
  \E k \in 1..Len(made) : made[k].m_sleep > 0 /\ Written(k)

\* C3: the k-th detected boundary makes the reply numbered k, and the
\* replies written carry X-Reply 1, 2, 3, ... in that order.
C3_ReplyNumbers ==
  /\ Len(asked) = m_reply
  /\ Len(made) = m_reply
  /\ \A k \in 1..Len(made) : made[k].str.reply = k
  /\ \A i \in 1..Len(wire) : wire[i].reply = i

\* Every reply the bounds allow has been written.
C3_Witness == Len(wire) = MaxReplies

\* C4: reply k echoes, in its header and in its body, the value of the last
\* X-Request header line of request k, and 0 when request k has none.
C4_EchoesOwnRequest ==
  /\ Len(asked) = Len(made)
  /\ \A k \in 1..Len(made) :
       /\ made[k].str.request = asked[k].request
       /\ made[k].str.body.request = asked[k].request

\* A request with X-Request: 7 was followed by one without the header.
C4_Witness ==
  \E k \in 1..Len(made) :
    /\ k + 1 <= Len(made)
    /\ made[k].str.request = 7
    /\ made[k + 1].str.request = 0

FrontSleeping == m_reply_queue # <<>> /\ is_sleeping(Head(m_reply_queue))

\* C5: every successful read completion leaves exactly one read armed, and
\* a read that completes while the front of the queue sleeps still detects
\* its boundaries and enqueues their replies: nothing is written, the queue
\* grows by the replies made, one per boundary.
C5_ReadAlwaysRearmed ==
  [][(nreads' = nreads + 1 /\ sock_open') =>
       /\ reads' = 1
       /\ m_reply' - m_reply = Len(asked') - Len(asked)
       /\ FrontSleeping =>
            /\ wire' = wire
            /\ m_reply_queue' =
                 m_reply_queue \o SubSeq(made', Len(made) + 1, Len(made'))]_vars

\* A reply with its request id captured waits behind a front that sleeps,
\* its timer not yet expired, and a read is armed.
C5_Witness ==
  /\ Len(m_reply_queue) >= 2
  /\ FrontSleeping
  /\ timers[Head(m_reply_queue).id] = "waiting"
  /\ m_reply_queue[2].str.request = 7
  /\ reads = 1

\* C8: the delay of reply k is the value of the last X-Sleep header line of
\* request k; with no such line the reply is enqueued awake and no timer is
\* started for it.
C8_SleepsOwnDelay ==
  /\ Len(asked) = Len(made)
  /\ \A k \in 1..Len(made) :
       /\ made[k].m_sleep = asked[k].sleep
       /\ (timers[made[k].id] = "idle") <=> (asked[k].sleep = 0)

\* A delayed reply is followed by one whose request had no X-Sleep.
C8_Witness ==
  \E k \in 1..Len(made) :
    /\ k + 1 <= Len(made)
    /\ made[k].m_sleep > 0
    /\ made[k + 1].m_sleep = 0
    /\ timers[made[k + 1].id] = "idle"

\* An occurrence of the separator ends at position n of the fed stream.
OccursAt(n) == n >= Len(EOM) /\ SubSeq(fed, n - Len(EOM) + 1, n) = EOM

\* C6: the boundary matcher reports at a byte exactly when that byte ends
\* an occurrence of "\r\n\r\n" that overlaps no occurrence reported before;
\* no such occurrence is missed.
C6_BoundaryReportedExactly ==
  \A n \in 1..Len(fed) :
    (n \in eom_hits) <=>
      /\ OccursAt(n)
      /\ \A h \in eom_hits : h < n => h <= n - Len(EOM)

\* The line the last fed byte ends, when that byte is LF.
LastLine == SubSeq(fed, LineStart(fed, Len(fed) - 1), Len(fed))

\* C7: the header extractor reports a pair on the LF of a line exactly when
\* the line is KEY ": " VALUE "\r\n"; after the LF of any other line it is
\* back in its begin state, nothing kept and the error flag clear.
C7_HeaderReportedExactly ==
  fed # <<>> =>
    IF fed[Len(fed)] = LF
    THEN /\ HeaderMatched(hdr) <=> IsHeaderLine(LastLine)
         /\ HeaderMatched(hdr) =>
              hdr.m_key = LineKey(LastLine) /\ hdr.m_value = LineValue(LastLine)
         /\ ~HeaderMatched(hdr) => hdr = HeaderReset
    ELSE ~HeaderMatched(hdr)

\* C9: the read-error branch empties the queue, closes the socket, sets
\* m_closed and arms no read; and once closed, the connection stays closed
\* with an empty queue, makes no reply and writes none, whatever runs next.
C9_ReadErrorCloses ==
  [][/\ (sock_open /\ ~sock_open') =>
          m_closed' /\ m_reply_queue' = <<>> /\ reads' = 0
     /\ m_closed =>
          /\ m_closed' /\ ~sock_open' /\ reads' = 0
          /\ m_reply_queue' = <<>>
          /\ m_reply' = m_reply /\ made' = made
          /\ wire' = wire]_vars

\* The connection closed with a sleeping reply queued, and the handler of
\* that reply's cancelled timer has run since.
C9_Witness ==
  /\ m_closed
  /\ \E k \in 1..Len(made) : ~Written(k) /\ timers[made[k].id] = "cancelled"

\* C10: a timer handler that runs after the read error closed the
\* connection touches no destroyed Reply and leaves the process running.
C10_TimerAfterCloseIsNoOp ==
  m_closed => ~freed_use /\ running

\* C11: a write error is fatal to the connection: once a write on the open
\* socket has completed with an error, the queue is empty, the socket is
\* closed and m_closed is set, so that no later reply is written.
C11_WriteErrorCloses ==
  write_failed => m_closed /\ ~sock_open /\ m_reply_queue = <<>>

\* C12: a Reply leaves the queue, and with it the string whose bytes were
\* handed to async_write is released, only after that write has completed:
\* the Reply of every write in flight is still in the queue.
C12_PoppedOnlyAfterWritten ==
  \A i \in 1..Len(writes) :
    \E j \in 1..Len(m_reply_queue) : m_reply_queue[j].str.reply = writes[i]

RECURSIVE Join(_)
Join(lines) == IF lines = <<>> THEN <<>> ELSE Head(lines) \o Join(Tail(lines))

\* line is no header line, or a header line of a key the server knows.
KnownKey(line) ==
  ~IsHeaderLine(line) \/ LineKey(line) \in {KeySleep, KeyRequest}

\* The bytes s without its header lines of other keys.
WithoutOtherKeys(s) == Join(SelectSeq(LinesOf(s, 1, 1), KnownKey))

\* C13: header lines whose key is neither X-Sleep nor X-Request change
\* nothing: after the reads have delivered the stream up to the end of a
\* line, the replies made (their delay, request id and number), the replies
\* written, the pending delay and request id and the open/closed state are
\* those the same bytes without these lines give.
C13_OtherKeysChangeNothing ==
  (pos > 0 /\ stream[pos] = LF) =>
    LET ref == read_bytes(NewConnection,
                          WithoutOtherKeys(SubSeq(stream, 1, pos)))
    IN /\ made = ref.made
       /\ wire = ref.wire
       /\ m_reply = ref.m_reply
       /\ m_sleep = ref.m_sleep
       /\ m_request = ref.m_request
       /\ m_closed = ref.m_closed
       /\ sock_open = ref.sock_open

\* The stream with "X-Disconnect: yes" and "X-Sleepy: 3" has been read to
\* its end: a delayed reply for request 7, then a reply for request 8.
C13_Witness ==
  /\ pos = Len(stream)
  /\ WithoutOtherKeys(stream) # stream
  /\ Len(made) = 2
  /\ made[1].m_sleep = 1 /\ made[1].str.request = 7
  /\ made[2].m_sleep = 0 /\ made[2].str.request = 8

\* The requests of the bytes s: the pieces that end with the separator.
RECURSIVE Requests(_, _, _)
Requests(s, from, i) ==
  IF i > Len(s) THEN <<>>
  ELSE IF i - from + 1 >= Len(EOM) /\ SubSeq(s, i - Len(EOM) + 1, i) = EOM
       THEN <<SubSeq(s, from, i)>> \o Requests(s, i + 1, i + 1)
       ELSE Requests(s, from, i + 1)

\* The value, as written, of the last header line of lines whose key is
\* key, in a sequence of one; <<>> when there is no such line.
RECURSIVE LastRaw(_, _, _)
LastRaw(lines, key, n) ==
  IF n = 0 THEN <<>>
  ELSE IF IsHeaderLine(lines[n]) /\ LineKey(lines[n]) = key
       THEN <<LineValue(lines[n])>>
       ELSE LastRaw(lines, key, n - 1)

\* v is a non-negative decimal integer: digits, at least one.
IsDecimal(v) == v # <<>> /\ \A i \in 1..Len(v) : IsDigit(v[i])

\* C14: an X-Sleep or X-Request value that is no non-negative decimal
\* integer (empty, letters, digits followed by other bytes, negative)
\* counts as 0: the reply of that request is made without delay,
\* respectively echoes request id 0.
C14_InvalidValueIsZero ==
  pos = Len(stream) =>
    LET reqs == Requests(stream, 1, 1)
    IN /\ Len(made) = Len(reqs)
       /\ \A k \in 1..Len(reqs) :
            LET lines == LinesOf(reqs[k], 1, 1)
                sleep == LastRaw(lines, KeySleep, Len(lines))
                request == LastRaw(lines, KeyRequest, Len(lines))
            IN /\ (sleep # <<>> /\ ~IsDecimal(sleep[1])) =>
                    made[k].m_sleep = 0
               /\ (request # <<>> /\ ~IsDecimal(request[1])) =>
                    made[k].str.request = 0

\* C15: the connections started carry strictly increasing identifiers,
\* whichever accepts failed in between, and an identifier once given stays:
\* an accept only adds a connection, with the identifier it was created
\* with, after the ones started before.
C15_IdentifiersIncrease ==
  [][/\ \A i, j \in 1..Len(accepted') : i < j => accepted'[i] < accepted'[j]
     /\ \/ accepted' = accepted
        \/ accepted' = Append(accepted, new_connection)]_vars

\* Two connections were started with a failed accept between them.
C15_Witness ==
  \E i \in 1..Len(accepted) :
    i + 1 <= Len(accepted) /\ accepted[i + 1] > accepted[i] + 1

\* C16: when a handler has returned on an open connection, the queue is
\* empty or its front reply sleeps: a reply made without delay on an empty
\* queue is written by the handler that made it, and the flush that follows
\* the waking of the front writes it and the ready replies behind it.
C16_NoReadyFront ==
  ~m_closed => m_reply_queue = <<>> \/ is_sleeping(Head(m_reply_queue))

\* Delays 0, 1, 0: all three replies are written, the second after its
\* timer's handler ran, with the connection open.
C16_Witness ==
  /\ ~m_closed
  /\ Len(made) = 3 /\ Len(wire) = 3
  /\ made[1].m_sleep = 0 /\ made[2].m_sleep > 0 /\ made[3].m_sleep = 0
  /\ Fired(2)

\* C17: with every timer firing and every queued handler run, each reply
\* made is written in the end, unless a read error closes the connection
\* first; the queue does not stay blocked, also when the timer of a reply
\* behind the front fires before the front's.
C17_EveryReplyWritten ==
  \A k \in 1..MaxReplies :
    (Len(made) >= k) ~> (m_closed \/ (Len(made) >= k /\ Written(k)))

\* The front sleeps with its timer running while the handler of the timer
\* of a reply behind it has run.
C17_Witness ==
  /\ ~m_closed
  /\ FrontSleeping
  /\ timers[Head(m_reply_queue).id] = "waiting"
  /\ \E i \in 2..Len(m_reply_queue) : timers[m_reply_queue[i].id] = "fired"

\* C18: a connection has at most one async_write outstanding: the flush
\* starts the write of the next reply only when the write before it has
\* completed.
C18_OneWriteInFlight == Len(writes) <= 1

\* C19: what the reads make of the bytes depends on the bytes alone, not on
\* where the reads cut them: after any reads, cut where they may be (inside
\* the separator, inside a header line), the replies made (number, X-Reply,
\* X-Request, delay), the replies written and queued, the pending delay and
\* request id and the state of both parsers are those one read of the same
\* bytes gives.
C19_SplitIndependent ==
  LET ref == read_bytes(NewConnection, SubSeq(stream, 1, pos))
  IN /\ made = ref.made
     /\ wire = ref.wire
     /\ m_reply_queue = ref.m_reply_queue
     /\ m_reply = ref.m_reply
     /\ m_sleep = ref.m_sleep
     /\ m_request = ref.m_request
     /\ m_eom = ref.m_eom
     /\ m_header = ref.m_header

\* A stream of two requests has been read to its end one byte a read, so
\* that a read ended at every byte of each separator and header line.
C19_Witness ==
  /\ pos = Len(stream)
  /\ nreads = pos
  /\ Len(made) = 2
  /\ made[1].m_sleep = 1
  /\ made[2].str.request = 7

\* C20: the boundary matcher reports no boundary that is not there: the
\* byte at which it reports ends an occurrence of "\r\n\r\n" made of bytes
\* fed after its last report; and, reset by the caller after every report,
\* it is fed only with its cursor at offset 0 to 3 of the separator.
C20_NoSpuriousBoundary ==
  /\ \A n \in eom_hits :
       /\ OccursAt(n)
       /\ \A h \in eom_hits : h < n => h <= n - Len(EOM)
  /\ eom.m_ptr \in 0..(Len(EOM) - 1)
  /\ ~eom.m_match

\* A boundary was reported after bytes that belong to none, and a byte has
\* been fed since the report.
C20_Witness ==
  \E n \in eom_hits : n > Len(EOM) /\ n < Len(fed)

\* C21: connections are independent: a handler of the first connection (a
\* read, a read error, a timer) changes nothing of the second, neither its
\* queue, counters and open state nor the run of the process that writes
\* its replies.
C21_ConnectionsIndependent ==
  [][(<<m_reply, m_closed, m_reply_queue, sock_open, reads, timers, wire,
        nreads>>' #
      <<m_reply, m_closed, m_reply_queue, sock_open, reads, timers, wire,
        nreads>>) =>
       /\ conn_b' = conn_b
       /\ running' = running]_vars

\* C22: in both drivers the requests added and not yet finished are never
\* more than the ceiling (6 in the first driver, PIPELEN in the second);
\* the probe is added alone and has finished before a second request is
\* added; and the requests are added in the order of their index, each at
\* most once, NRREQUESTS at most.
C22_InFlightCeiling ==
  /\ drv.added - drv.finished <= PIPELEN(drv.which)
  /\ drv.pc = "probe" => drv.added = 1 /\ drv.finished = 0
  /\ drv.added >= 2 => drv.finished >= 1
  /\ drv.added <= NRREQUESTS(drv.which)
  /\ drv.order = [i \in 1..drv.added |-> i - 1]

\* The pipeline is full, with requests still to add and some finished.
C22_Witness ==
  /\ drv.added - drv.finished = PIPELEN(drv.which)
  /\ drv.added < NRREQUESTS(drv.which)
  /\ drv.finished > PIPELEN(drv.which)

\* C23: in both drivers, wherever the results of the last perform have been
\* read, running is the number of handles added less the number finished,
\* the probe counted in both; and the main loop is left through its exit
\* test only with all NRREQUESTS requests added and all of them finished.
C23_RunningCountsInFlight ==
  /\ drv.pc \in {"refill", "perform", "test", "select", "done"} =>
       drv.running = drv.added - drv.finished
  /\ drv.pc = "done" =>
       /\ drv.added = NRREQUESTS(drv.which)
       /\ drv.finished = NRREQUESTS(drv.which)

\* Index of the first occurrence of pat in buf.
FirstAt(buf, pat) ==
  LET S == {i \in 1..(Len(buf) - Len(pat) + 1) :
              SubSeq(buf, i, i + Len(pat) - 1) = pat}
  IN CHOOSE i \in S : \A j \in S : i <= j

ContentLengthName ==
  <<"C", "o", "n", "t", "e", "n", "t", "-", "L", "e", "n", "g",
    "t", "h", COLON, SP>>

\* The value a client reads in the Content-Length header of buf.
ContentLengthOf(buf) ==
  strtoul(SubSeq(buf, FirstAt(buf, ContentLengthName) + Len(ContentLengthName),
                 Len(buf)))

\* The number of bytes of buf after its blank line.
BytesAfterBlankLine(buf) == Len(buf) - (FirstAt(buf, EOM) + Len(EOM) - 1)

\* C24: for every reply rendered, the Content-Length header value is the
\* number of bytes after the blank line of the reply, which is 27 plus the
\* length of the "Reply .. on connection .. for request #.." text, and both
\* snprintf results are below the sizes of their buffers.
C24_ContentLengthExact ==
  rendered # NoRendering =>
    /\ ContentLengthOf(rendered.buf) = BytesAfterBlankLine(rendered.buf)
    /\ BytesAfterBlankLine(rendered.buf) = 27 + rendered.body_size
    /\ rendered.body_size < SizeofBody
    /\ rendered.size < SizeofBuf
    /\ rendered.size = Len(rendered.buf)

\* The longest reply has been rendered: ten-digit sequence number and
\* connection id, twenty-digit request id, three-digit Content-Length.
C24_Witness ==
  /\ rendered = Rendering(INT_MAX, INT_MAX, ULONG_MAX)
  /\ rendered.body_size = 75
  /\ ContentLengthOf(rendered.buf) = 102

====
